---- MODULE Spec2Model ----
(***************************************************************************)
(* A model of the codex-wrapper request path: the Message Adapter, the     *)
(* Session Manager (session registry) and the /v1/chat/completions handler *)
(* with its single-shot and streaming backend calls.                       *)
(*                                                                         *)
(* JavaScript runs every handler to its next await without interruption,   *)
(* so each action below is one such synchronous stretch of code.           *)
(***************************************************************************)
EXTENDS Integers, Sequences, FiniteSets, TLC

(***************************************************************************)
(* Bounds of the model.                                                    *)
(***************************************************************************)
\* longest message list a request body carries
MaxMsgs == 2
\* a session request is only started while the history is shorter than this
MaxHist == 3
\* the clock stops advancing here
MaxTime == 2
\* most content chunks one streamed response carries
MaxChunks == 2
\* most events the SDK hands to one streaming run before its stream ends
MaxEvents == 3
\* most parts (plain text or tool-call candidates) of one backend text
MaxParts == 2

(***************************************************************************)
(* Values.                                                                 *)
(***************************************************************************)
\* null of the source, and undefined where the code treats the two alike (a
\* value no text equals)
Null == "<null>"
\* the content of a message that has no content property: undefined, which a
\* template literal renders differently from null
Undefined == "<undefined>"
\* session_id absent from the body (undefined or '' are both falsy in the code)
NoSid == ""
\* threadId of a fresh session (auth.ts:259), also a backend thread without id
NoThread == ""

SessionIds == {"s1", "s2"}
ThreadIds == {"t1", "t2"}
Requests == {1, 2}

\* !x of the source, for a string-or-null value
Falsy(x) == x = Null \/ x = Undefined \/ x = ""

Msg(r, c) == [role |-> r, content |-> c, name |-> Null, tool_calls |-> <<>>]

\* the messages request bodies are built from
MsgPool == {Msg("system", "p"), Msg("user", "a"), Msg("user", "b")}

RECURSIVE SeqsUpTo(_, _)
SeqsUpTo(S, n) ==
  IF n = 0 THEN {<<>>}
  ELSE LET shorter == SeqsUpTo(S, n - 1)
       IN shorter \cup {Append(q, m) : q \in {x \in shorter : Len(x) = n - 1}, m \in S}

\* the message lists of the request bodies
Bodies == SeqsUpTo(MsgPool, MaxMsgs)

\* messages for the Message Adapter: the role is missing (Null), unknown or
\* one of the four roles, the content is null, absent, empty or a text
AdapterPool ==
  {Msg(r, c) : r \in {Null, "function", "system", "user", "assistant", "tool"},
               c \in {Null, Undefined, "", "a"}}

AdapterBodies == SeqsUpTo(AdapterPool, MaxMsgs)

(***************************************************************************)
(* Message Adapter (src/unnamed/part_001).                                 *)
(***************************************************************************)
RECURSIVE Join(_, _)
\* Array.prototype.join
Join(parts, sep) ==
  IF parts = <<>> THEN ""
  ELSE IF Len(parts) = 1 THEN parts[1]
  ELSE parts[1] \o sep \o Join(Tail(parts), sep)

RECURSIVE toolCallsStr(_)
toolCallsStr(tcs) ==
  IF tcs = <<>> THEN <<>>
  ELSE <<"Tool call: " \o tcs[1].name \o "(" \o tcs[1].arguments \o ")">>
       \o toolCallsStr(Tail(tcs))

\* the system messages collected by the loop of messagesToPrompt
RECURSIVE systemMessages(_)
systemMessages(messages) ==
  IF messages = <<>> THEN <<>>
  ELSE LET m == Head(messages)
       IN (IF m.role = "system" /\ ~Falsy(m.content) THEN <<m.content>> ELSE <<>>)
          \o systemMessages(Tail(messages))

\* the transcript lines collected by the loop of messagesToPrompt
RECURSIVE conversationMessages(_)
conversationMessages(messages) ==
  IF messages = <<>> THEN <<>>
  ELSE LET m == Head(messages)
           text == IF Falsy(m.content) THEN "" ELSE m.content
           line ==
             IF m.role = "user"
               THEN <<"User: " \o (IF Falsy(m.name) THEN "" ELSE m.name \o ": ") \o text>>
             ELSE IF m.role = "assistant"
               THEN (IF ~Falsy(m.content) THEN <<"Assistant: " \o m.content>> ELSE <<>>)
                    \o (IF Len(m.tool_calls) > 0
                          THEN <<"Assistant: " \o Join(toolCallsStr(m.tool_calls), "\n")>>
                          ELSE <<>>)
             ELSE IF m.role = "tool"
               THEN <<"Tool result: " \o text>>
             ELSE <<>>
       IN line \o conversationMessages(Tail(messages))

messagesToPrompt(messages) ==
  [prompt |-> Join(conversationMessages(messages), "\n\n"),
   systemPrompt |-> IF Len(systemMessages(messages)) > 0
                      THEN Join(systemMessages(messages), "\n\n")
                      ELSE Null]

ValidRoles == {"system", "user", "assistant", "tool"}

\* validateMessages rejecting every entry without content, whatever its role
validateMessagesAnyContent(messages) ==
  /\ Len(messages) # 0
  /\ \A i \in DOMAIN messages :
       /\ ~Falsy(messages[i].role)
       /\ messages[i].role \in ValidRoles
       /\ ~Falsy(messages[i].content)

validateMessages(messages) ==
  /\ Len(messages) # 0
  /\ \A i \in DOMAIN messages :
       /\ ~Falsy(messages[i].role)
       /\ messages[i].role \in ValidRoles
       /\ ~(messages[i].role = "user" /\ Falsy(messages[i].content))

\* `${i}` for an index of a message list
IndexText(i) == <<"0", "1", "2", "3", "4">>[i + 1]

\* the error of the first entry, from position i on, that validateMessages
\* rejects; Null when there is none
RECURSIVE firstError(_, _)
firstError(messages, i) ==
  IF i > Len(messages) THEN Null
  ELSE LET message == messages[i]
           at == IndexText(i - 1)
       IN IF Falsy(message.role)
            THEN "Message at index " \o at \o " missing required field: role"
          ELSE IF message.role \notin ValidRoles
            THEN "Message at index " \o at \o " has invalid role: " \o message.role
          ELSE IF message.role = "user" /\ Falsy(message.content)
            THEN "User message at index " \o at \o " missing content"
          ELSE firstError(messages, i + 1)

\* the error field of what validateMessages returns, Null when valid
validationError(messages) ==
  IF Len(messages) = 0 THEN "Messages must be a non-empty array"
  ELSE firstError(messages, 1)

(***************************************************************************)
(* Auth Manager (src/src/auth.ts, class AuthManager) and the routes.       *)
(***************************************************************************)
\* the keys process.env.API_KEY can hold; Null when it is not set
ApiKeys == {Null, "k"}

\* the keys setRuntimeApiKey is called with
RuntimeKeys == {"", "k", "j"}

\* the Authorization headers of the requests; Null when there is none
Authorizations ==
  {Null, "Bearer k", "Bearer j", "bearer k", "Bearer  k", "Basic k", "k"}

\* match[1] of authHeader.match(/^Bearer\s+(.+)$/i); Null when there is no match
bearerToken(authHeader) ==
  IF authHeader \in {"Bearer k", "bearer k", "Bearer  k"} THEN "k"
  ELSE IF authHeader = "Bearer j" THEN "j"
  ELSE Null

\* verifyApiKey(request) with the configured key and the request's header
verifyApiKey(apiKey, authHeader) ==
  IF Falsy(apiKey) THEN TRUE
  ELSE IF Falsy(authHeader) THEN FALSE
  ELSE IF bearerToken(authHeader) = Null THEN FALSE
  ELSE bearerToken(authHeader) = apiKey

\* the routes of the API, by the name used here
Endpoints == {"chat", "models", "tools", "sessions", "session", "delete", "stats"}

\* the routes registered with preHandler: authPreHandler
hasPreHandler(endpoint) == endpoint \in {"chat", "sessions", "session", "delete", "stats"}

\* the request enters its handler: the route has no preHandler, or
\* authPreHandler does not throw
admits(apiKey, endpoint, authHeader) ==
  hasPreHandler(endpoint) => verifyApiKey(apiKey, authHeader)

(***************************************************************************)
(* Session Manager (src/src/auth.ts, class SessionManager).  The Map of    *)
(* sessions is a sequence of Session records in insertion order, with      *)
(* pairwise distinct sessionId.                                            *)
(***************************************************************************)
\* new SessionManager({ttl}) : the time to live, in clock ticks
defaultTTL == 1

\* Map.has
Has(ss, sid) == \E i \in DOMAIN ss : ss[i].sessionId = sid

IndexOf(ss, sid) == CHOOSE i \in DOMAIN ss : ss[i].sessionId = sid

\* Map.get on a key that is present
Get(ss, sid) == ss[IndexOf(ss, sid)]

\* a Session literal that comes with a thread id
NewSessionBound(sid, t) ==
  [sessionId |-> sid, threadId |-> "t1", messages |-> <<>>,
   createdAt |-> t, lastActive |-> t, messageCount |-> 0]

\* the Session literal of processMessages
NewSession(sid, t) ==
  [sessionId |-> sid, threadId |-> NoThread, messages |-> <<>>,
   createdAt |-> t, lastActive |-> t, messageCount |-> 0]

\* pushMessages without the test of the role: system messages are stored too
RECURSIVE pushMessagesUnfiltered(_, _)
pushMessagesUnfiltered(session, messages) ==
  IF messages = <<>> THEN session
  ELSE pushMessagesUnfiltered([session EXCEPT !.messages = Append(@, Head(messages)),
                                              !.messageCount = @ + 1],
                              Tail(messages))

\* the push loop of processMessages on one session record
RECURSIVE pushMessages(_, _)
pushMessages(session, messages) ==
  IF messages = <<>> THEN session
  ELSE LET m == Head(messages)
           next == IF m.role # "system"
                     THEN [session EXCEPT !.messages = Append(@, m),
                                          !.messageCount = @ + 1]
                     ELSE session
       IN pushMessages(next, Tail(messages))

\* processMessages without the early return: a request without session_id
\* gets a session too
processMessagesAlwaysSession(ss, messages, sid, t) ==
  LET created == IF Has(ss, sid) THEN ss ELSE Append(ss, NewSession(sid, t))
      i == IndexOf(created, sid)
      touched == [created[i] EXCEPT !.lastActive = t]
      pushed == pushMessages(touched, messages)
  IN [sessions |-> [created EXCEPT ![i] = pushed],
      allMessages |-> pushed.messages,
      actualSessionId |-> IF Falsy(sid) THEN Null ELSE sid]

\* processMessages returning the request's own messages, not the history
processMessagesReturnsInput(ss, messages, sid, t) ==
  IF Falsy(sid)
    THEN [sessions |-> ss, allMessages |-> messages, actualSessionId |-> Null]
    ELSE LET created == IF Has(ss, sid) THEN ss ELSE Append(ss, NewSession(sid, t))
             i == IndexOf(created, sid)
             touched == [created[i] EXCEPT !.lastActive = t]
             pushed == pushMessages(touched, messages)
         IN [sessions |-> [created EXCEPT ![i] = pushed],
             allMessages |-> messages,
             actualSessionId |-> sid]

\* processMessages storing the new messages in place of the history: what
\* earlier calls appended is lost
processMessagesOverwrite(ss, messages, sid, t) ==
  IF Falsy(sid)
    THEN [sessions |-> ss, allMessages |-> messages, actualSessionId |-> Null]
    ELSE LET created == IF Has(ss, sid) THEN ss ELSE Append(ss, NewSession(sid, t))
             i == IndexOf(created, sid)
             touched == [created[i] EXCEPT !.lastActive = t, !.messages = <<>>]
             pushed == pushMessages(touched, messages)
         IN [sessions |-> [created EXCEPT ![i] = pushed],
             allMessages |-> pushed.messages,
             actualSessionId |-> sid]

\* processMessages(messages, sessionId) at time t: the registry afterwards
\* and the returned [allMessages, actualSessionId]
processMessages(ss, messages, sid, t) ==
  IF Falsy(sid)
    THEN [sessions |-> ss, allMessages |-> messages, actualSessionId |-> Null]
    ELSE LET created == IF Has(ss, sid) THEN ss ELSE Append(ss, NewSession(sid, t))
             i == IndexOf(created, sid)
             touched == [created[i] EXCEPT !.lastActive = t]
             pushed == pushMessages(touched, messages)
         IN [sessions |-> [created EXCEPT ![i] = pushed],
             allMessages |-> pushed.messages,
             actualSessionId |-> sid]

\* addAssistantResponse creating the session when it is not there
addAssistantResponseUpsert(ss, sid, message, t) ==
  LET created == IF Has(ss, sid) THEN ss ELSE Append(ss, NewSession(sid, t))
  IN [created EXCEPT ![IndexOf(created, sid)] =
        [@ EXCEPT !.messages = Append(@, message),
                  !.messageCount = @ + 1,
                  !.lastActive = t]]

addAssistantResponse(ss, sid, message, t) ==
  IF Has(ss, sid)
    THEN [ss EXCEPT ![IndexOf(ss, sid)] =
            [@ EXCEPT !.messages = Append(@, message),
                      !.messageCount = @ + 1,
                      !.lastActive = t]]
    ELSE ss

getThreadId(ss, sid) == IF Has(ss, sid) THEN Get(ss, sid).threadId ELSE Null

\* setThreadId keeping a thread id that is already set
setThreadIdFirstWins(ss, sid, threadId) ==
  IF Has(ss, sid) /\ Falsy(Get(ss, sid).threadId)
    THEN [ss EXCEPT ![IndexOf(ss, sid)] = [@ EXCEPT !.threadId = threadId]]
    ELSE ss

setThreadId(ss, sid, threadId) ==
  IF Has(ss, sid)
    THEN [ss EXCEPT ![IndexOf(ss, sid)] = [@ EXCEPT !.threadId = threadId]]
    ELSE ss

\* Map.delete: the entries that remain, in order
RECURSIVE MapDelete(_, _)
MapDelete(ss, sid) ==
  IF ss = <<>> THEN <<>>
  ELSE IF Head(ss).sessionId = sid THEN Tail(ss)
  ELSE <<Head(ss)>> \o MapDelete(Tail(ss), sid)

\* deleteSession emptying the whole Map
deleteSessionClears(ss, sid) == [sessions |-> <<>>, deleted |-> Has(ss, sid)]

deleteSession(ss, sid) == [sessions |-> MapDelete(ss, sid), deleted |-> Has(ss, sid)]

\* Map.get: the session as a one-element sequence, empty for undefined
getSession(ss, sid) == IF Has(ss, sid) THEN <<Get(ss, sid)>> ELSE <<>>

\* the sum of messageCount over the sessions, in the order of the Map
RECURSIVE totalMessages(_)
totalMessages(ss) ==
  IF ss = <<>> THEN 0 ELSE Head(ss).messageCount + totalMessages(Tail(ss))

\* getStats counting one message for every session
getStatsCountsSessions(ss) ==
  [activeSessions |-> Len(ss),
   totalMessages |-> Len(ss)]

\* getStats without the dates of the oldest and newest session
getStats(ss) ==
  [activeSessions |-> Len(ss),
   totalMessages |-> totalMessages(ss)]

\* the session ids listSessions returns, in order
RECURSIVE listSessions(_)
listSessions(ss) ==
  IF ss = <<>> THEN <<>>
  ELSE <<[session_id |-> Head(ss).sessionId,
          created_at |-> Head(ss).createdAt,
          last_active |-> Head(ss).lastActive,
          message_count |-> Head(ss).messageCount,
          expires_at |-> Head(ss).lastActive + defaultTTL]>>
       \o listSessions(Tail(ss))

\* cleanup with now >= expiresAt for now > expiresAt
RECURSIVE cleanupInclusive(_, _)
cleanupInclusive(ss, t) ==
  IF ss = <<>> THEN <<>>
  ELSE LET expiresAt == Head(ss).lastActive + defaultTTL
       IN (IF t >= expiresAt THEN <<>> ELSE <<Head(ss)>>) \o cleanupInclusive(Tail(ss), t)

\* cleanup measuring the time to live from createdAt: a later touch of the
\* session does not keep it
RECURSIVE cleanupFromCreation(_, _)
cleanupFromCreation(ss, t) ==
  IF ss = <<>> THEN <<>>
  ELSE LET expiresAt == Head(ss).createdAt + defaultTTL
       IN (IF t > expiresAt THEN <<>> ELSE <<Head(ss)>>) \o cleanupFromCreation(Tail(ss), t)

\* the loop of cleanup() run at time t: every entry is visited once and an
\* expired one is deleted from the Map
RECURSIVE cleanup(_, _)
cleanup(ss, t) ==
  IF ss = <<>> THEN <<>>
  ELSE LET expiresAt == Head(ss).lastActive + defaultTTL
       IN (IF t > expiresAt THEN <<>> ELSE <<Head(ss)>>) \o cleanup(Tail(ss), t)

(***************************************************************************)
(* Backend adapter (src/src/codex-client.ts) and the values it passes on.  *)
(***************************************************************************)
\* the contents runCompletion returns ('' when the SDK result is no text)
Contents == {"x"}
\* the texts of the SDK's item.completed events
Deltas == {"x", "y"}
\* an optional value: <<>> is undefined, <<v>> is v
None == <<>>
Some(v) == <<v>>
\* the usage record built from a turn.completed event (codex-client.ts:188)
totalUsageOf(inputTokens, outputTokens) ==
  [prompt_tokens |-> inputTokens, completion_tokens |-> outputTokens,
   total_tokens |-> inputTokens + outputTokens]

\* the usage records of the turn.completed events
Usages == {totalUsageOf(3, 4), totalUsageOf(0, 0)}

\* the StreamEvent records runCompletionStreaming yields; thread_id is the
\* thread's id or NoThread ((thread as any).id || undefined)
ContentEvent(text, threadId) ==
  [type |-> "content", content |-> text, error |-> Null, thread_id |-> threadId,
   finish_reason |-> Null, usage |-> None]
UsageEvent(usage, threadId) ==
  [type |-> "usage", content |-> Null, error |-> Null, thread_id |-> threadId,
   finish_reason |-> Null, usage |-> Some(usage)]
ErrorEvent(error, threadId) ==
  [type |-> "error", content |-> Null, error |-> error, thread_id |-> threadId,
   finish_reason |-> Null, usage |-> None]
CompleteEvent(threadId, totalUsage) ==
  [type |-> "complete", content |-> Null, error |-> Null, thread_id |-> threadId,
   finish_reason |-> "stop", usage |-> totalUsage]
\* the error event of the generator's catch, which carries no thread_id
CaughtEvent(message) == ErrorEvent(message, NoThread)

\* what the generator yields on an item.completed event with the given text
itemCompleted(text, threadId) ==
  IF ~Falsy(text) THEN <<ContentEvent(text, threadId)>> ELSE <<>>

\* the ceiling handed to the CodexClient constructor as its timeout option
\* (index.ts:34, 72; codex-client.ts:48), in ticks of the clock; no method of
\* CodexClient reads the field it is stored in
MAX_TIMEOUT == 1

\* the backend opening a new thread whatever thread id it is given
openThreadAlwaysNew(threadId) == <<"startThread">>

\* the SDK call that opens the thread of a backend call and the id it is given
\* (codex-client.ts:88-90, 139-141)
openThread(threadId) ==
  IF ~Falsy(threadId) THEN <<"resumeThread", threadId>> ELSE <<"startThread">>

\* `${systemPrompt}\n\n${prompt}` of runCompletion and runCompletionStreaming
finalPrompt(prompt, systemPrompt) ==
  IF ~Falsy(systemPrompt) THEN systemPrompt \o "\n\n" \o prompt ELSE prompt

(***************************************************************************)
(* Tool Handler (src/src/tool-handler.ts) and tool registry (tools.ts).    *)
(*                                                                         *)
(* A backend text is a sequence of parts separated by a blank: plain text, *)
(* name(args), which the first pattern of extractToolCalls matches, and a  *)
(* code block of name and args, which the second pattern matches.          *)
(***************************************************************************)
\* the names registerDefaultTools registers
ToolNames ==
  {"read_file", "write_file", "edit_file", "run_command", "list_directory",
   "search_files", "search_in_files", "web_search", "fetch_url"}

\* toolRegistry.get(name) is defined
Registered(name) == name \in ToolNames

\* the argument texts of the candidates: an object in JSON, and braces around
\* something that is no JSON
ArgTexts == {"{\"path\": \"a\"}", "{oops}"}

\* JSON.parse(argsStr) does not throw
JSONParses(argsStr) == argsStr = "{\"path\": \"a\"}"

\* JSON.stringify(JSON.parse(argsStr))
JSONNormal(argsStr) == IF argsStr = "{\"path\": \"a\"}" THEN "{\"path\":\"a\"}" ELSE argsStr

PlainPart(text) == [kind |-> "text", name |-> Null, args |-> Null, text |-> text]
CallPart(name, args) == [kind |-> "call", name |-> name, args |-> args, text |-> Null]
BlockPart(name, args) == [kind |-> "block", name |-> name, args |-> args, text |-> Null]

\* the three backquotes that open and close a code block (a string of TLA+
\* cannot hold a backquote, so each is written as an apostrophe)
Fence == "'''"

\* the characters of a part
PartText(part) ==
  IF part.kind = "text" THEN part.text
  ELSE IF part.kind = "call" THEN part.name \o "(" \o part.args \o ")"
  ELSE Fence \o part.name \o "\n" \o part.args \o "\n" \o Fence

\* the backend text made of the parts
RECURSIVE TextOf(_)
TextOf(parts) ==
  IF parts = <<>> THEN ""
  ELSE IF Len(parts) = 1 THEN PartText(parts[1])
  ELSE PartText(parts[1]) \o " " \o TextOf(Tail(parts))

\* the matches of /(\w+)\((\{[^}]+\})\)/g in the text, in order
functionCallPattern(parts) == SelectSeq(parts, LAMBDA part : part.kind = "call")

\* the matches of the code block pattern (tool-handler.ts:179) in the text,
\* in order
codeBlockPattern(parts) == SelectSeq(parts, LAMBDA part : part.kind = "block")

\* `call_${Math.random().toString(36).substr(2, 9)}`: the ids Math.random
\* can give
CallIds == {"call_a", "call_b"}

\* the while loop without the look-up of the name in the registry
RECURSIVE pushMatchesAnyName(_, _, _)
pushMatchesAnyName(toolCalls, matches, ids) ==
  IF matches = <<>> THEN toolCalls
  ELSE LET match == Head(matches)
           n == Len(toolCalls) + 1
       IN IF JSONParses(match.args)
            THEN pushMatchesAnyName(Append(toolCalls,
                                           [id |-> ids[n], type |-> "function",
                                            name |-> match.name,
                                            arguments |-> JSONNormal(match.args)]),
                                    Tail(matches), ids)
            ELSE pushMatchesAnyName(toolCalls, Tail(matches), ids)

\* one of the two while loops of extractToolCalls: a match with a registered
\* name and arguments that parse is pushed with the next random id
RECURSIVE pushMatches(_, _, _)
pushMatches(toolCalls, matches, ids) ==
  IF matches = <<>> THEN toolCalls
  ELSE LET match == Head(matches)
           n == Len(toolCalls) + 1
       IN IF Registered(match.name) /\ JSONParses(match.args)
            THEN pushMatches(Append(toolCalls,
                                    [id |-> ids[n], type |-> "function",
                                     name |-> match.name,
                                     arguments |-> JSONNormal(match.args)]),
                             Tail(matches), ids)
            ELSE pushMatches(toolCalls, Tail(matches), ids)

\* extractToolCalls on a message whose content is the text of the parts, with
\* the ids Math.random gives; None is undefined
extractToolCalls(parts, ids) ==
  IF Falsy(TextOf(parts)) THEN None
  ELSE LET toolCalls == pushMatches(pushMatches(<<>>, functionCallPattern(parts), ids),
                                    codeBlockPattern(parts), ids)
       IN IF Len(toolCalls) > 0 THEN Some(toolCalls) ELSE None

\* shouldEnableTools with tools on by default
shouldEnableToolsByDefault(request) == TRUE

\* shouldEnableTools(request)
shouldEnableTools(request) ==
  \/ request.enable_tools = TRUE
  \/ Len(request.tools) > 0
  \/ Len(request.functions) > 0

\* the line of injectToolContext for a tool given by its name, without
\* description and parameters (tool-handler.ts:106-113)
toolDescription(name) == "- " \o name \o ": No description\n  Parameters: {}"

\* the text describing the tools (tool-handler.ts:106-115)
toolContext(tools) ==
  "You have access to the following tools:\n\n"
    \o Join([i \in DOMAIN tools |-> toolDescription(tools[i])], "\n\n")
    \o "\n\nWhen you need to use a tool, clearly indicate which tool and what parameters you're using."

\* `${msg.content}` for a content that may be null or undefined
contentText(content) ==
  IF content = Null THEN "null"
  ELSE IF content = Undefined THEN "undefined"
  ELSE content

\* injectToolContext(messages, tools) (tool-handler.ts:100-131)
injectToolContext(messages, tools) ==
  IF Len(tools) = 0 THEN messages
  ELSE IF \E i \in DOMAIN messages : messages[i].role = "system"
    THEN [i \in DOMAIN messages |->
            IF messages[i].role = "system"
              THEN [messages[i] EXCEPT
                      !.content = contentText(@) \o "\n\n" \o toolContext(tools)]
              ELSE messages[i]]
    ELSE <<Msg("system", toolContext(tools))>> \o messages

\* the tool settings of a request: enable_tools, tools and functions (an
\* absent list and an empty one are both <<>>)
ToolSetting(enable_tools, tools, functions) ==
  [enable_tools |-> enable_tools, tools |-> tools, functions |-> functions]

NoTools == ToolSetting(FALSE, <<>>, <<>>)

ToolSettings ==
  {ToolSetting(e, t, f) : e \in BOOLEAN, t \in {<<>>, <<"read_file">>},
                          f \in {<<>>, <<"lookup">>}}

\* the backend texts: plain text and candidates of both patterns, with a
\* registered and an unregistered name and both argument texts
Parts ==
  {PlainPart("x")}
    \cup {CallPart(n, a) : n \in {"read_file", "foo"}, a \in ArgTexts}
    \cup {BlockPart(n, a) : n \in {"write_file", "foo"}, a \in ArgTexts}

ToolTexts == SeqsUpTo(Parts, MaxParts) \ {<<>>}

\* the texts without a candidate
PlainTexts == {<<PlainPart(c)>> : c \in Contents}

(***************************************************************************)
(* State.                                                                  *)
(***************************************************************************)
VARIABLES
  sessions,   \* SessionManager.sessions, in insertion order
  now,        \* the clock read by new Date() and Date.now()
  reqs,       \* the chat-completion requests in flight, by handler slot
  gen,        \* a run of runCompletionStreaming whose events are all consumed
  http        \* the configured API key and the request that arrived last

vars == <<sessions, now, reqs, gen, http>>

\* no request has arrived yet; the key and its source are as the constructor
\* of AuthManager leaves them (auth.ts:13-19)
NoRequest(apiKey) ==
  [apiKey |-> apiKey,
   apiKeySource |-> IF Falsy(apiKey) THEN "none" ELSE "environment",
   endpoint |-> Null, sessionId |-> Null,
   authorization |-> Null, admitted |-> FALSE, status |-> 0]

\* a handler slot with no request in it
IdleReq ==
  [pc |-> "idle", messages |-> <<>>, session_id |-> NoSid, stream |-> FALSE,
   enable_tools |-> FALSE, tools |-> <<>>, functions |-> <<>>, toolsEnabled |-> FALSE,
   allMessages |-> <<>>, processedMessages |-> <<>>, actualSessionId |-> Null,
   prompt |-> "", systemPrompt |-> Null, threadId |-> Null, opened |-> <<>>,
   calledAt |-> 0,
   sent |-> "",
   thread |-> NoThread, totalUsage |-> None,
   status |-> 0, error |-> Null, content |-> Null, finish_reason |-> Null,
   tool_calls |-> None, text |-> <<>>,
   received |-> <<>>, out |-> <<>>, closed |-> FALSE, disconnected |-> FALSE]

\* what is left of a request once the handler has returned: the response it
\* gave, with the session_id and stream flag of the request it answers
Answered(req) ==
  [IdleReq EXCEPT !.pc = "done", !.session_id = req.session_id, !.stream = req.stream,
                  !.status = req.status, !.error = req.error, !.content = req.content,
                  !.finish_reason = req.finish_reason,
                  !.tool_calls = req.tool_calls, !.text = req.text,
                  !.received = req.received,
                  !.out = req.out, !.closed = req.closed]

\* the answer to a request rejected as invalid, with the message list it is
\* about (index.ts:123-126, 134-137)
Rejected(req, error) ==
  [Answered([req EXCEPT !.status = 400, !.error = error])
     EXCEPT !.messages = req.messages]

\* a streamed request once the backend has taken the call: of the handler's
\* locals the streaming loop reads only actualSessionId from here on;
\* toolsEnabled stays as the tool setting the call was made with
Taken(req) ==
  [IdleReq EXCEPT !.pc = req.pc, !.session_id = req.session_id, !.stream = req.stream,
                  !.toolsEnabled = req.toolsEnabled,
                  !.actualSessionId = req.actualSessionId, !.status = req.status,
                  !.thread = req.thread, !.totalUsage = req.totalUsage,
                  !.received = req.received, !.out = req.out, !.closed = req.closed]

\* a streaming run with no call in it
IdleGen == [pc |-> "idle", thread |-> NoThread, totalUsage |-> None, events |-> <<>>]

(***************************************************************************)
(* What the streaming branch writes to reply.raw.                          *)
(***************************************************************************)
ContentChunk(text) ==
  [kind |-> "chunk", delta |-> text, finish_reason |-> Null, usage |-> None]
FinalChunk(reason, usage) ==
  [kind |-> "chunk", delta |-> Null, finish_reason |-> reason, usage |-> usage]
DoneMarker ==
  [kind |-> "done", delta |-> Null, finish_reason |-> Null, usage |-> None]
ErrorChunk(message) ==
  [kind |-> "error", delta |-> message, finish_reason |-> Null, usage |-> None]

(***************************************************************************)
(* POST /v1/chat/completions (src/src/index.ts:112-306).                   *)
(***************************************************************************)
\* the handler from its entry to the first await (index.ts:119-238): validation,
\* session processing, prompt conversion, thread lookup and the start of the
\* backend call
HandleRequest(req, ss, t) ==
  IF ~validateMessages(req.messages)
    THEN [sessions |-> ss,
          req |-> Rejected(req, IF Falsy(validationError(req.messages))
                                  THEN "Invalid messages"
                                  ELSE validationError(req.messages))]
    ELSE
      LET pm == processMessages(ss, req.messages, req.session_id, t)
          p == messagesToPrompt(pm.allMessages)
          threadId == IF ~Falsy(pm.actualSessionId)
                        THEN getThreadId(pm.sessions, pm.actualSessionId)
                        ELSE Null
          seen == [req EXCEPT !.allMessages = pm.allMessages,
                              !.actualSessionId = pm.actualSessionId,
                              !.prompt = p.prompt,
                              !.systemPrompt = p.systemPrompt]
      IN IF Falsy(p.prompt)
           THEN [sessions |-> pm.sessions,
                 req |-> Rejected(seen, "No valid prompt in messages")]
           ELSE [sessions |-> pm.sessions,
                 req |-> [seen EXCEPT
                            !.pc = IF req.stream THEN "starting" ELSE "calling",
                            !.status = IF req.stream THEN 200 ELSE 0,
                            !.threadId = threadId,
                            !.opened = openThread(threadId),
                            !.calledAt = t,
                            !.toolsEnabled = shouldEnableTools(req),
                            !.processedMessages =
                               IF Len(req.tools) > 0
                                 THEN injectToolContext(pm.allMessages, req.tools)
                                 ELSE pm.allMessages,
                            !.sent = finalPrompt(p.prompt, p.systemPrompt)]]

\* the entries of a message list that processMessages stores
NonSystem(messages) == SelectSeq(messages, LAMBDA m : m.role # "system")

\* a request with one of the given bodies arrives in a free slot and runs to
\* its first await; a session request is only started while its messages fit
\* into a history of MaxHist entries
\* the preHandler of the route and, when it does not throw, the handler up to
\* its first await; when it throws the request is answered with the error
BeginAuth(r, bodies, sids, streams, settings, headers) ==
  /\ reqs[r].pc = "idle"
  /\ \E messages \in bodies, sid \in sids \cup {NoSid}, stream \in streams,
        setting \in settings, authHeader \in headers :
       /\ sid # NoSid =>
            (IF Has(sessions, sid) THEN Len(Get(sessions, sid).messages) ELSE 0)
              + Len(NonSystem(messages)) <= MaxHist
       /\ LET req == [IdleReq EXCEPT !.messages = messages,
                                     !.session_id = sid,
                                     !.stream = stream,
                                     !.enable_tools = setting.enable_tools,
                                     !.tools = setting.tools,
                                     !.functions = setting.functions]
              admitted == admits(http.apiKey, "chat", authHeader)
              h == IF admitted
                     THEN HandleRequest(req, sessions, now)
                     ELSE [sessions |-> sessions,
                           req |-> Answered([req EXCEPT
                                      !.status = 500,
                                      !.error = "Unauthorized: Invalid or missing API key"])]
          IN /\ sessions' = h.sessions
             /\ reqs' = [reqs EXCEPT ![r] = h.req]
             /\ http' = [http EXCEPT !.endpoint = "chat",
                                     !.sessionId = Null,
                                     !.authorization = authHeader,
                                     !.admitted = admitted,
                                     !.status = IF admitted THEN 0 ELSE 500]
  /\ UNCHANGED <<now, gen>>

\* a request without Authorization header
BeginTools(r, bodies, sids, streams, settings) ==
  BeginAuth(r, bodies, sids, streams, settings, {Null})

\* a request that sets none of enable_tools, tools and functions
Begin(r, bodies, sids, streams) == BeginTools(r, bodies, sids, streams, {NoTools})

\* the session update of the single-shot branch (index.ts:257-264)
updateSession(ss, req, content, thread_id, t) ==
  IF ~Falsy(req.actualSessionId) /\ ~Falsy(thread_id)
    THEN addAssistantResponse(setThreadId(ss, req.actualSessionId, thread_id),
                              req.actualSessionId, Msg("assistant", content), t)
    ELSE ss

\* the response keeping the backend text as content beside the tool calls
buildResponseKeepsContent(toolsEnabled, parts, finish_reason, ids) ==
  LET extractedCalls == IF toolsEnabled /\ ~Falsy(TextOf(parts))
                          THEN extractToolCalls(parts, ids)
                          ELSE None
      toolCalls == IF extractedCalls # None /\ Len(extractedCalls[1]) > 0
                     THEN extractedCalls ELSE None
  IN [content |-> TextOf(parts),
      tool_calls |-> toolCalls,
      finish_reason |-> IF toolCalls # None THEN "tool_calls" ELSE "stop"]

\* the tool calls, finish reason and message content of the single-shot
\* response (index.ts:240-255, 279-284) for a backend result whose content is
\* the text of the parts
buildResponse(toolsEnabled, parts, finish_reason, ids) ==
  LET extractedCalls == IF toolsEnabled /\ ~Falsy(TextOf(parts))
                          THEN extractToolCalls(parts, ids)
                          ELSE None
      toolCalls == IF extractedCalls # None /\ Len(extractedCalls[1]) > 0
                     THEN extractedCalls ELSE None
      finishReason == IF toolCalls # None THEN "tool_calls"
                      ELSE IF finish_reason = "tool_calls" THEN "tool_calls"
                      ELSE "stop"
  IN [content |-> IF toolCalls # None THEN Null ELSE TextOf(parts),
      tool_calls |-> toolCalls,
      finish_reason |-> finishReason]

\* runCompletion resolves with one of the texts and the handler builds its
\* response (index.ts:240-296)
ReturnWith(r, texts, idss) ==
  /\ reqs[r].pc = "calling"
  /\ \E parts \in texts, ids \in idss, thread_id \in ThreadIds \cup {NoThread} :
       LET response == buildResponse(reqs[r].toolsEnabled, parts, "stop", ids)
       IN /\ sessions' = updateSession(sessions, reqs[r], TextOf(parts), thread_id, now)
          /\ reqs' = [reqs EXCEPT ![r] =
                        Answered([@ EXCEPT !.status = 200,
                                           !.content = response.content,
                                           !.tool_calls = response.tool_calls,
                                           !.finish_reason = response.finish_reason,
                                           !.text = parts])]
  /\ UNCHANGED <<now, gen, http>>

\* runCompletion resolves with a text that holds no candidate
ReturnCompletion(r) == ReturnWith(r, PlainTexts, {<<>>})

\* a catch that stores the failure as the assistant's answer
ThrowCompletionAppends(r) ==
  /\ reqs[r].pc = "calling"
  /\ sessions' = IF ~Falsy(reqs[r].actualSessionId)
                   THEN addAssistantResponse(sessions, reqs[r].actualSessionId,
                                             Msg("assistant", "failed"), now)
                   ELSE sessions
  /\ reqs' = [reqs EXCEPT ![r] = Answered([@ EXCEPT !.status = 500,
                                                    !.error = "failed"])]
  /\ UNCHANGED <<now, gen, http>>

\* runCompletion rejects with an Error whose message is failed: the catch of
\* the handler answers 500 with that message (index.ts:297-304)
ThrowCompletion(r) ==
  /\ reqs[r].pc = "calling"
  /\ reqs' = [reqs EXCEPT ![r] = Answered([@ EXCEPT !.status = 500,
                                                    !.error = "failed"])]
  /\ UNCHANGED <<sessions, now, gen, http>>

\* the catch of the streaming branch taking back what was written before
streamCatchRetracts(req, message) ==
  Answered([req EXCEPT !.out = <<ErrorChunk(message)>>, !.closed = TRUE])

\* the catch of the streaming branch without the end of the response
streamCatchLeavesOpen(req, message) ==
  Answered([req EXCEPT !.out = Append(@, ErrorChunk(message))])

\* the catch of the streaming branch (index.ts:222-226)
streamCatch(req, message) ==
  Answered([req EXCEPT !.out = Append(@, ErrorChunk(message)), !.closed = TRUE])

\* thread.runStreamed resolves; the thread's id is read (codex-client.ts:149-152)
StreamStart(r) ==
  /\ reqs[r].pc = "starting"
  /\ \E thread_id \in ThreadIds \cup {NoThread} :
       reqs' = [reqs EXCEPT ![r] =
                  Taken([@ EXCEPT !.pc = "streaming", !.thread = thread_id])]
  /\ UNCHANGED <<sessions, now, gen, http>>

\* thread.runStreamed rejects: the generator yields an error event from its
\* catch (codex-client.ts:221-226) and the handler throws on it (index.ts:216)
StreamStartFail(r) ==
  /\ reqs[r].pc = "starting"
  /\ reqs' = [reqs EXCEPT ![r] = streamCatch(@, "failed")]
  /\ UNCHANGED <<sessions, now, gen, http>>

\* the loop body adding the text of a content event to the chunk written last
onEventMerges(req, event) ==
  LET got == [req EXCEPT !.received = IF event.type = "content"
                                        THEN Append(@, event.content) ELSE @]
      n == Len(req.out)
  IN IF event.type = "content" /\ ~Falsy(event.content)
       THEN IF n > 0
              THEN [got EXCEPT !.out[n] = ContentChunk(@.delta \o event.content)]
              ELSE [got EXCEPT !.out = Append(@, ContentChunk(event.content))]
       ELSE got

\* the loop body with a branch for the usage event that writes a chunk
onEventUsageChunk(req, event) ==
  LET got == [req EXCEPT !.received = IF event.type = "content"
                                        THEN Append(@, event.content) ELSE @]
  IN IF event.type = "content" /\ ~Falsy(event.content)
       THEN [got EXCEPT !.out = Append(@, ContentChunk(event.content))]
     ELSE IF event.type = "usage"
       THEN [got EXCEPT !.out = Append(@, [kind |-> "chunk", delta |-> Null,
                                           finish_reason |-> Null,
                                           usage |-> event.usage])]
     ELSE got

\* the body of the handler's loop for a content or usage event (index.ts:
\* 174-190): a content event with text is written as one chunk, a usage event
\* matches no branch; received keeps the texts of the content events handed over
onEvent(req, event) ==
  LET got == [req EXCEPT !.received = IF event.type = "content"
                                        THEN Append(@, event.content) ELSE @]
  IN IF event.type = "content" /\ ~Falsy(event.content)
       THEN [got EXCEPT !.out = Append(@, ContentChunk(event.content))]
       ELSE got

\* the loop over the events the generator yields for one event of the SDK
RECURSIVE consume(_, _)
consume(req, events) ==
  IF events = <<>> THEN req ELSE consume(onEvent(req, Head(events)), Tail(events))

\* an item.completed event: a content event when it has text (codex-client.ts:
\* 159-183), written as a chunk when the content is not empty (index.ts:174-190)
StreamItemWith(r, texts) ==
  /\ reqs[r].pc = "streaming"
  /\ Len(reqs[r].out) < MaxChunks
  /\ \E text \in texts :
       reqs' = [reqs EXCEPT ![r] = consume(@, itemCompleted(text, @.thread))]
  /\ UNCHANGED <<sessions, now, gen, http>>

\* an item.completed event with one of the plain texts or without text
StreamItem(r) == StreamItemWith(r, Deltas \cup {""})

\* a turn.completed event with usage: a usage event, which the handler
\* matches with no branch (codex-client.ts:185-200, index.ts:174-218)
StreamUsage(r) ==
  /\ reqs[r].pc = "streaming"
  /\ \E usage \in Usages :
       reqs' = [reqs EXCEPT ![r] =
                  consume([@ EXCEPT !.totalUsage = Some(usage)],
                          <<UsageEvent(usage, @.thread)>>)]
  /\ UNCHANGED <<sessions, now, gen, http>>

\* an error event of the SDK: yielded as an error event (codex-client.ts:202-208),
\* on which the handler throws into its catch (index.ts:216-226)
StreamError(r) ==
  /\ reqs[r].pc = "streaming"
  /\ reqs' = [reqs EXCEPT ![r] = streamCatch(@, "error")]
  /\ UNCHANGED <<sessions, now, gen, http>>

\* the SDK's event iterator throws: the generator's catch yields an error event
StreamThrow(r) ==
  /\ reqs[r].pc = "streaming"
  /\ reqs' = [reqs EXCEPT ![r] = streamCatch(@, "failed")]
  /\ UNCHANGED <<sessions, now, gen, http>>

\* the branch for the complete event without the write of the end marker
onCompleteNoMarker(ss, req, finish_reason, thread_id, usage) ==
  [sessions |-> IF ~Falsy(req.actualSessionId) /\ ~Falsy(thread_id)
                  THEN setThreadId(ss, req.actualSessionId, thread_id)
                  ELSE ss,
   req |-> Answered([req EXCEPT
              !.out = Append(@, FinalChunk(IF Falsy(finish_reason) THEN "stop"
                                           ELSE finish_reason, usage)),
              !.closed = TRUE])]

\* the handler's branch for the complete event and what follows it in the same
\* turn: the final chunk, the end marker and the thread id of the session
\* (index.ts:191-215), then the generator returns, the loop ends and the
\* response is ended (index.ts:221)
onComplete(ss, req, finish_reason, thread_id, usage) ==
  [sessions |-> IF ~Falsy(req.actualSessionId) /\ ~Falsy(thread_id)
                  THEN setThreadId(ss, req.actualSessionId, thread_id)
                  ELSE ss,
   req |-> Answered([req EXCEPT
              !.out = @ \o <<FinalChunk(IF Falsy(finish_reason) THEN "stop"
                                        ELSE finish_reason, usage),
                             DoneMarker>>,
              !.closed = TRUE])]

\* the SDK's events end: the generator yields the complete event
\* (codex-client.ts:212-218) and returns; the handler writes the end of the
\* stream and ends the response before anything else runs (index.ts:191-221)
StreamComplete(r) ==
  /\ reqs[r].pc = "streaming"
  /\ LET c == onComplete(sessions, reqs[r], "stop", reqs[r].thread, reqs[r].totalUsage)
     IN /\ sessions' = c.sessions
        /\ reqs' = [reqs EXCEPT ![r] = c.req]
  /\ UNCHANGED <<now, gen, http>>

\* the caller closes the connection of a streamed response that has begun;
\* the streaming branch (index.ts:158-229) registers no listener for it and
\* reads no state of the connection, so its loop goes on as before
Disconnect(r) ==
  /\ reqs[r].pc = "streaming"
  /\ ~reqs[r].disconnected
  /\ reqs' = [reqs EXCEPT ![r].disconnected = TRUE]
  /\ UNCHANGED <<sessions, now, gen, http>>

\* the response has gone to the caller; the slot is free for the next request
Respond(r) ==
  /\ reqs[r].pc = "done"
  /\ reqs' = [reqs EXCEPT ![r] = IdleReq]
  /\ UNCHANGED <<sessions, now, gen, http>>

(***************************************************************************)
(* runCompletionStreaming (codex-client.ts:125-228) with a consumer that   *)
(* takes every event it yields, up to its return.                          *)
(***************************************************************************)
\* the call: thread.runStreamed resolves and the thread's id is read
GenStart ==
  /\ gen.pc = "idle"
  /\ \E thread_id \in ThreadIds \cup {NoThread} :
       gen' = [IdleGen EXCEPT !.pc = "iterating", !.thread = thread_id]
  /\ UNCHANGED <<sessions, now, reqs, http>>

\* thread.runStreamed rejects: the catch yields an error event
GenStartFail ==
  /\ gen.pc = "idle"
  /\ gen' = [IdleGen EXCEPT !.pc = "returned", !.events = <<CaughtEvent("failed")>>]
  /\ UNCHANGED <<sessions, now, reqs, http>>

\* case 'item.completed' (codex-client.ts:159-183)
GenItem ==
  /\ gen.pc = "iterating"
  /\ Len(gen.events) < MaxEvents
  /\ \E text \in Deltas \cup {""} :
       gen' = [gen EXCEPT !.events = @ \o itemCompleted(text, gen.thread)]
  /\ UNCHANGED <<sessions, now, reqs, http>>

\* case 'turn.completed' with usage (codex-client.ts:185-200)
GenUsage ==
  /\ gen.pc = "iterating"
  /\ Len(gen.events) < MaxEvents
  /\ \E usage \in Usages :
       gen' = [gen EXCEPT !.totalUsage = Some(usage),
                          !.events = Append(@, UsageEvent(usage, gen.thread))]
  /\ UNCHANGED <<sessions, now, reqs, http>>

\* case 'error' (codex-client.ts:202-208): the event is yielded and the break
\* leaves the switch, so the loop goes on with the next event of the SDK
GenError ==
  /\ gen.pc = "iterating"
  /\ Len(gen.events) < MaxEvents
  /\ gen' = [gen EXCEPT !.events = Append(@, ErrorEvent("error", gen.thread))]
  /\ UNCHANGED <<sessions, now, reqs, http>>

\* the SDK's event iterator throws: the catch yields an error event and the
\* generator returns (codex-client.ts:221-227)
GenThrow ==
  /\ gen.pc = "iterating"
  /\ gen' = [gen EXCEPT !.pc = "returned", !.events = Append(@, CaughtEvent("failed"))]
  /\ UNCHANGED <<sessions, now, reqs, http>>

\* the SDK's events end: the complete event is yielded and the generator
\* returns (codex-client.ts:212-220)
GenComplete ==
  /\ gen.pc = "iterating"
  /\ gen' = [gen EXCEPT !.pc = "returned",
                        !.events = Append(@, CompleteEvent(gen.thread, gen.totalUsage))]
  /\ UNCHANGED <<sessions, now, reqs, http>>

\* the run is over; the next call starts a new one
GenReturn ==
  /\ gen.pc = "returned"
  /\ gen' = IdleGen
  /\ UNCHANGED <<sessions, now, reqs, http>>

(***************************************************************************)
(* The other entry points into the registry.                               *)
(***************************************************************************)
\* DELETE /v1/sessions/:sessionId (index.ts:410-427)
DeleteSession(sids) ==
  /\ \E sid \in sids : sessions' = deleteSession(sessions, sid).sessions
  /\ UNCHANGED <<now, reqs, gen, http>>

\* a request to one of the other routes: its preHandler, if it has one, and
\* its handler (index.ts:312-441)
Serve(endpoints, sids, headers) ==
  \E endpoint \in endpoints \ {"chat"}, sid \in sids, authHeader \in headers :
    LET admitted == admits(http.apiKey, endpoint, authHeader)
        deleted == deleteSession(sessions, sid)
        status == IF ~admitted THEN 500
                  ELSE IF endpoint = "session" /\ getSession(sessions, sid) = <<>> THEN 404
                  ELSE IF endpoint = "delete" /\ ~deleted.deleted THEN 404
                  ELSE 200
    IN /\ http' = [http EXCEPT !.endpoint = endpoint,
                               !.sessionId = IF endpoint \in {"session", "delete"}
                                               THEN sid ELSE Null,
                               !.authorization = authHeader,
                               !.admitted = admitted, !.status = status]
       /\ sessions' = IF admitted /\ endpoint = "delete" THEN deleted.sessions
                      ELSE sessions
       /\ UNCHANGED <<now, reqs, gen>>

\* SessionManager.clear (auth.ts:411-414)
clear(ss) == <<>>

\* clear() is called on the registry; no route reaches it, a holder of the
\* sessionManager object does
Clear ==
  /\ sessions' = clear(sessions)
  /\ UNCHANGED <<now, reqs, gen, http>>

\* AuthManager.setRuntimeApiKey (auth.ts:24-27), which start() calls with the
\* key promptForApiProtection returns (index.ts:447-449)
SetRuntimeApiKey(keys) ==
  /\ \E key \in keys : http' = [http EXCEPT !.apiKey = key,
                                            !.apiKeySource = "runtime"]
  /\ UNCHANGED <<sessions, now, reqs, gen>>

\* the timer of startCleanup fires (auth.ts:226-228)
Cleanup ==
  /\ sessions' = cleanup(sessions, now)
  /\ UNCHANGED <<now, reqs, gen, http>>

\* time passes
Tick ==
  /\ now < MaxTime
  /\ now' = now + 1
  /\ UNCHANGED <<sessions, reqs, gen, http>>

(***************************************************************************)
(* Specifications.                                                         *)
(***************************************************************************)
InitWith(slots) ==
  /\ sessions = <<>>
  /\ now = 0
  /\ reqs = [r \in slots |-> IdleReq]
  /\ gen = IdleGen
  /\ http = NoRequest(Null)

\* One request at a time on one session id, single-shot or streamed, while
\* sessions are deleted, the clock runs and the cleanup timer fires.
Init == InitWith({1})

Next ==
  \/ Begin(1, Bodies, {"s1"}, BOOLEAN)
  \/ ReturnCompletion(1)
  \/ ThrowCompletion(1)
  \/ StreamStart(1)
  \/ StreamStartFail(1)
  \/ StreamItem(1)
  \/ StreamUsage(1)
  \/ StreamError(1)
  \/ StreamThrow(1)
  \/ StreamComplete(1)
  \/ Respond(1)
  \/ DeleteSession({"s1"})
  \/ Cleanup
  \/ Tick

Spec == Init /\ [][Next]_vars

\* One request at a time on two session ids while the clock runs and the
\* cleanup timer fires.
SweepBodies == {<<Msg("user", "a")>>, <<Msg("system", "p"), Msg("user", "a")>>}

InitSweep == InitWith({1})

NextSweep ==
  \/ Begin(1, SweepBodies, SessionIds, {FALSE})
  \/ ReturnCompletion(1)
  \/ ThrowCompletion(1)
  \/ Respond(1)
  \/ DeleteSession(SessionIds)
  \/ Clear
  \/ Cleanup
  \/ Tick

SpecSweep == InitSweep /\ [][NextSweep]_vars

\* Two requests in flight at once on one session id.
InitConc == InitWith(Requests)

NextConc ==
  \/ \E r \in Requests : Begin(r, Bodies, {"s1"}, {FALSE})
  \/ \E r \in Requests : ReturnCompletion(r)
  \/ \E r \in Requests : ThrowCompletion(r)
  \/ \E r \in Requests : Respond(r)

SpecConc == InitConc /\ [][NextConc]_vars

\* One streamed request at a time on one session id.
InitStream == InitWith({1})

NextStream ==
  \/ Begin(1, SweepBodies, {"s1"}, {TRUE})
  \/ StreamStart(1)
  \/ StreamStartFail(1)
  \/ StreamItem(1)
  \/ StreamUsage(1)
  \/ StreamError(1)
  \/ StreamThrow(1)
  \/ StreamComplete(1)
  \/ Respond(1)

SpecStream == InitStream /\ [][NextStream]_vars

\* One streamed request at a time whose caller may close the connection
\* while the response is streamed.
InitDisconnect == InitWith({1})

NextDisconnect ==
  \/ Begin(1, SweepBodies, {"s1"}, {TRUE})
  \/ StreamStart(1)
  \/ StreamStartFail(1)
  \/ StreamItem(1)
  \/ StreamUsage(1)
  \/ StreamError(1)
  \/ StreamThrow(1)
  \/ StreamComplete(1)
  \/ Disconnect(1)
  \/ Respond(1)

SpecDisconnect == InitDisconnect /\ [][NextDisconnect]_vars

\* Runs of runCompletionStreaming consumed to their end, one after another.
InitGen == InitWith({1})

NextGen ==
  \/ GenStart
  \/ GenStartFail
  \/ GenItem
  \/ GenUsage
  \/ GenError
  \/ GenThrow
  \/ GenComplete
  \/ GenReturn

SpecGen == InitGen /\ [][NextGen]_vars

\* One request at a time without session_id, on message lists of every shape.
InitAdapter == InitWith({1})

NextAdapter ==
  \/ Begin(1, AdapterBodies, {}, {FALSE})
  \/ ReturnCompletion(1)
  \/ ThrowCompletion(1)
  \/ Respond(1)

SpecAdapter == InitAdapter /\ [][NextAdapter]_vars

\* One single-shot request at a time without session_id, with every tool
\* setting, answered with backend texts that hold tool-call candidates.
ToolBodies == {<<Msg("user", "a")>>}

\* the same with a system message before it, with and without content
ToolContextBodies ==
  ToolBodies \cup {<<Msg("system", c), Msg("user", "a")>> : c \in {"p", Null, Undefined}}

InitTools == InitWith({1})

NextTools ==
  \/ BeginTools(1, ToolContextBodies, {}, {FALSE}, ToolSettings)
  \/ ReturnWith(1, ToolTexts, [1..MaxParts -> CallIds])
  \/ ThrowCompletion(1)
  \/ Respond(1)

SpecTools == InitTools /\ [][NextTools]_vars

\* Requests to every route with every Authorization header, with and without
\* a configured API key.
InitAuth ==
  /\ sessions = <<>>
  /\ now = 0
  /\ reqs = [r \in {1} |-> IdleReq]
  /\ gen = IdleGen
  /\ \E apiKey \in ApiKeys : http = NoRequest(apiKey)

NextAuth ==
  \/ BeginAuth(1, ToolBodies, {"s1"}, {FALSE}, {NoTools}, Authorizations)
  \/ ReturnCompletion(1)
  \/ ThrowCompletion(1)
  \/ Respond(1)
  \/ Serve(Endpoints, {"s1"}, Authorizations)
  \/ SetRuntimeApiKey(RuntimeKeys)

SpecAuth == InitAuth /\ [][NextAuth]_vars

\* One request at a time on one session id, single-shot or streamed, beside
\* requests to the session routes, the sweep and the clock.
InitThread == InitWith({1})

NextThread ==
  \/ Begin(1, ToolBodies, {"s1"}, BOOLEAN)
  \/ ReturnCompletion(1)
  \/ ThrowCompletion(1)
  \/ StreamStart(1)
  \/ StreamItem(1)
  \/ StreamError(1)
  \/ StreamComplete(1)
  \/ Respond(1)
  \/ Serve(Endpoints, {"s1"}, {Null})
  \/ Cleanup
  \/ Tick

SpecThread == InitThread /\ [][NextThread]_vars

\* One single-shot request at a time on two session ids, beside requests to
\* the four session routes.
InitDelete == InitWith({1})

NextDelete ==
  \/ Begin(1, ToolBodies, SessionIds, {FALSE})
  \/ ReturnCompletion(1)
  \/ ThrowCompletion(1)
  \/ Respond(1)
  \/ Serve({"sessions", "session", "delete", "stats"}, SessionIds, {Null})

SpecDelete == InitDelete /\ [][NextDelete]_vars

\* Two single-shot requests in flight at a time on one session id, while the
\* session is deleted on request.
RaceBodies == {<<Msg("user", "a")>>, <<Msg("user", "b")>>}

InitRace == InitWith(Requests)

NextRace ==
  \/ \E r \in Requests : Begin(r, RaceBodies, {"s1"}, {FALSE})
  \/ \E r \in Requests : ReturnCompletion(r)
  \/ \E r \in Requests : ThrowCompletion(r)
  \/ \E r \in Requests : Respond(r)
  \/ DeleteSession({"s1"})

SpecRace == InitRace /\ [][NextRace]_vars

\* One streamed request at a time without session_id, with every tool
\* setting, whose backend produces items that are plain text or a tool-call
\* candidate.
ItemTexts == {TextOf(<<part>>) : part \in Parts}

InitStreamTools == InitWith({1})

NextStreamTools ==
  \/ BeginTools(1, ToolBodies, {}, {TRUE}, ToolSettings)
  \/ StreamStart(1)
  \/ StreamItemWith(1, ItemTexts)
  \/ StreamComplete(1)
  \/ Respond(1)

SpecStreamTools == InitStreamTools /\ [][NextStreamTools]_vars

(***************************************************************************)
(* Properties.                                                             *)
(***************************************************************************)
\* the history of session sid, empty when there is no such session
History(ss, sid) == IF Has(ss, sid) THEN Get(ss, sid).messages ELSE <<>>

Last(q) == q[Len(q)]

IsPrefix(p, q) == Len(p) <= Len(q) /\ SubSeq(q, 1, Len(p)) = p

IsSuffix(p, q) == Len(p) <= Len(q) /\ SubSeq(q, Len(q) - Len(p) + 1, Len(q)) = p

\* the request of slot r has just been taken in with a session_id and passed
\* on to the backend in this step
Resolves(r) ==
  /\ reqs[r].pc = "idle"
  /\ reqs'[r].pc \in {"calling", "starting"}
  /\ reqs'[r].session_id # NoSid

\* C1: every call of processMessages with a session id leaves the session's
\* history equal to the history before the call followed by the non-system
\* messages of the call, in their order, and returns exactly that history.
C1_ResolveAccumulates ==
  [][\A r \in DOMAIN reqs :
       Resolves(r) =>
         LET sid == reqs'[r].session_id
         IN /\ Has(sessions', sid)
            /\ History(sessions', sid)
                 = History(sessions, sid) \o NonSystem(reqs'[r].messages)
            /\ reqs'[r].allMessages = History(sessions', sid)
            /\ reqs'[r].actualSessionId = sid]_vars

\* A was submitted by one request and B by the next one: the history is [A, B].
C1_Witness ==
  /\ reqs[1].pc = "calling"
  /\ reqs[1].session_id = "s1"
  /\ reqs[1].messages = <<Msg("system", "p"), Msg("user", "b")>>
  /\ reqs[1].allMessages = <<Msg("user", "a"), Msg("user", "b")>>
  /\ History(sessions, "s1") = <<Msg("user", "a"), Msg("user", "b")>>

\* C2: no step of a request without session_id changes the session registry,
\* and processMessages hands such a request its own message list back.
C2_StatelessLeavesRegistry ==
  [][\A r \in DOMAIN reqs :
       (reqs'[r] # reqs[r] /\ reqs[r].session_id = NoSid /\ reqs'[r].session_id = NoSid)
         => /\ sessions' = sessions
            /\ (reqs[r].pc = "idle" /\ reqs'[r].pc \in {"calling", "starting"})
                 => /\ reqs'[r].allMessages = reqs'[r].messages
                    /\ reqs'[r].actualSessionId = Null]_vars

\* a streamed request without session_id has completed while a session with a
\* history exists
C2_Witness ==
  /\ reqs[1].pc = "done"
  /\ reqs[1].session_id = NoSid
  /\ reqs[1].stream
  /\ reqs[1].status = 200
  /\ reqs[1].closed
  /\ Len(reqs[1].out) >= 2
  /\ Len(History(sessions, "s1")) > 0

\* C3: no session's history holds a message of role system.
C3_NoSystemInHistory ==
  \A i \in DOMAIN sessions :
    \A j \in DOMAIN sessions[i].messages : sessions[i].messages[j].role # "system"

\* a request that carried a system message has been appended to a history
\* that already holds an assistant answer
C3_Witness ==
  /\ reqs[1].pc = "calling"
  /\ reqs[1].session_id = "s1"
  /\ \E j \in DOMAIN reqs[1].messages : reqs[1].messages[j].role = "system"
  /\ \E j \in DOMAIN History(sessions, "s1") :
       History(sessions, "s1")[j].role = "assistant"
  /\ Last(History(sessions, "s1")).role = "user"

\* C4: the system prompt handed to the backend for a request with a session_id
\* is the one its own message list produces.
C4_SystemPromptRederived ==
  \A r \in DOMAIN reqs :
    (reqs[r].pc \in {"calling", "starting"} /\ reqs[r].session_id # NoSid)
      => reqs[r].systemPrompt = messagesToPrompt(reqs[r].messages).systemPrompt

\* C5: when the backend call of a single-shot request with a session_id
\* succeeds and the session exists, its history ends with the answer.
C5_AnswerAppended ==
  [][\A r \in DOMAIN reqs :
       (/\ reqs[r].pc = "calling"
        /\ reqs[r].session_id # NoSid
        /\ reqs'[r].pc = "done"
        /\ reqs'[r].status = 200
        /\ Has(sessions', reqs[r].session_id))
         => /\ Len(History(sessions', reqs[r].session_id)) > 0
            /\ Last(History(sessions', reqs[r].session_id))
                 = Msg("assistant", reqs'[r].content)]_vars

\* the text of the content chunks written so far
RECURSIVE StreamedText(_)
StreamedText(out) ==
  IF out = <<>> THEN ""
  ELSE (IF Head(out).kind = "chunk" /\ Head(out).finish_reason = Null
          THEN Head(out).delta ELSE "")
       \o StreamedText(Tail(out))

\* the step in which request r handles the complete event of its stream: it
\* leaves the loop with a chunk that carries a finish_reason
CompleteHandled(r) ==
  /\ reqs[r].pc = "streaming"
  /\ reqs'[r].pc = "done"
  /\ \E i \in DOMAIN reqs'[r].out : reqs'[r].out[i].finish_reason # Null

\* C6: when a streamed request bound to a session handles the backend's
\* completion, the session holds the backend's thread handle and its history
\* ends with an assistant message carrying all streamed text.
C6_StreamPersisted ==
  [][\A r \in DOMAIN reqs :
       (/\ CompleteHandled(r)
        /\ reqs[r].session_id # NoSid
        /\ Has(sessions', reqs[r].session_id))
         => /\ Get(sessions', reqs[r].session_id).threadId = reqs[r].thread
            /\ Len(History(sessions', reqs[r].session_id)) > 0
            /\ Last(History(sessions', reqs[r].session_id))
                 = Msg("assistant", StreamedText(reqs[r].out))]_vars

\* C7: on every session of the registry setThreadId stores the value bound
\* last, binding twice is binding once, and history and message count stay.
C7_BindIdempotentLastWins ==
  \A sid \in SessionIds :
    Has(sessions, sid) =>
      \A t1 \in ThreadIds, t2 \in ThreadIds :
        LET once == setThreadId(sessions, sid, t1)
            twice == setThreadId(once, sid, t1)
            over == setThreadId(once, sid, t2)
        IN /\ Get(once, sid).threadId = t1
           /\ twice = once
           /\ Get(over, sid).threadId = t2
           /\ over = setThreadId(sessions, sid, t2)
           /\ Len(once) = Len(sessions)
           /\ \A i \in DOMAIN sessions :
                /\ once[i].messages = sessions[i].messages
                /\ once[i].messageCount = sessions[i].messageCount
                /\ once[i].sessionId # sid => once[i] = sessions[i]

\* a session that a completed request has bound to a thread and that holds
\* that request's messages and answer
C7_Witness ==
  /\ Has(sessions, "s1")
  /\ Get(sessions, "s1").threadId = "t2"
  /\ Len(History(sessions, "s1")) >= 2
  /\ reqs[1].pc = "calling"
  /\ reqs[1].threadId = "t2"

\* C8: when the session of a request is gone at the time its backend call
\* completes, the completion leaves the registry as it is and the request
\* gets its normal answer.
C8_MissingSessionNoOp ==
  [][\A r \in DOMAIN reqs :
       (/\ reqs[r].session_id # NoSid
        /\ ~Has(sessions, reqs[r].session_id))
         => /\ (reqs[r].pc = "calling" /\ reqs'[r].pc = "done" /\ reqs'[r].status # 500)
                 => /\ sessions' = sessions
                    /\ reqs'[r].status = 200
                    /\ reqs'[r].content \in Contents
                    /\ reqs'[r].finish_reason = "stop"
            /\ CompleteHandled(r)
                 => /\ sessions' = sessions
                    /\ reqs'[r].status = 200
                    /\ Last(reqs'[r].out) = DoneMarker]_vars

\* a request has been answered normally and its session is not in the registry
C8_Witness ==
  /\ reqs[1].pc = "done"
  /\ reqs[1].session_id = "s1"
  /\ reqs[1].status = 200
  /\ reqs[1].content = "x"
  /\ ~Has(sessions, "s1")

\* C9: cleanup at the current time removes exactly the sessions with
\* lastActive + TTL < now and leaves the others, in their order, as they are.
C9_SweepExact ==
  LET after == cleanup(sessions, now)
      expired(s) == s.lastActive + defaultTTL < now
  IN /\ \A sid \in SessionIds :
          /\ Has(after, sid) <=> (Has(sessions, sid) /\ ~expired(Get(sessions, sid)))
          /\ Has(after, sid) => Get(after, sid) = Get(sessions, sid)
     /\ after = SelectSeq(sessions, LAMBDA s : ~expired(s))
     /\ \A sid \in SessionIds :
          (\E i \in DOMAIN listSessions(after) : listSessions(after)[i].session_id = sid)
            <=> (Has(sessions, sid) /\ Get(sessions, sid).lastActive + defaultTTL >= now)

\* one session is a tick past its time to live and another is exactly at it
C9_Witness ==
  /\ Has(sessions, "s1") /\ Has(sessions, "s2")
  /\ Get(sessions, "s1").lastActive = now - defaultTTL - 1
  /\ Get(sessions, "s2").lastActive + defaultTTL = now
  /\ Len(cleanup(sessions, now)) = 1

\* C10: while two requests on one session id are in flight, the messages of
\* each lie in the history as one block, in their order, where its call of
\* processMessages put them, and the two blocks do not overlap.
C10_ConcurrentAppends ==
  \A r1 \in DOMAIN reqs :
    (reqs[r1].pc = "calling" /\ reqs[r1].session_id # NoSid) =>
      LET h == History(sessions, reqs[r1].session_id)
          a1 == reqs[r1].allMessages
          m1 == NonSystem(reqs[r1].messages)
      IN /\ IsPrefix(a1, h)
         /\ IsSuffix(m1, a1)
         /\ \A r2 \in DOMAIN reqs \ {r1} :
              (reqs[r2].pc = "calling" /\ reqs[r2].session_id = reqs[r1].session_id) =>
                LET a2 == reqs[r2].allMessages
                    m2 == NonSystem(reqs[r2].messages)
                IN /\ Len(h) >= Len(m1) + Len(m2)
                   /\ \/ Len(a1) <= Len(a2) - Len(m2)
                      \/ Len(a2) <= Len(a1) - Len(m1)

\* two requests are in flight on one session, one with two messages and one
\* with one, and the history holds all three
C10_Witness ==
  /\ reqs[1].pc = "calling" /\ reqs[2].pc = "calling"
  /\ reqs[1].session_id = "s1" /\ reqs[2].session_id = "s1"
  /\ reqs[1].messages = <<Msg("user", "a"), Msg("user", "b")>>
  /\ reqs[2].messages = <<Msg("user", "b")>>
  /\ History(sessions, "s1")
       = <<Msg("user", "b"), Msg("user", "a"), Msg("user", "b")>>

\* C11: the expiry test and the removal of the sweep are one step: a sweep
\* step changes no request, removes whole records only, and keeps as it is
\* every session whose lastActive, as the requests before the step left it, is
\* within the time to live; and no step of a request removes a session.
C11_SweepAtomic ==
  [][/\ Cleanup =>
          /\ reqs' = reqs
          /\ sessions' = SelectSeq(sessions, LAMBDA s : Has(sessions', s.sessionId))
          /\ \A i \in DOMAIN sessions :
               sessions[i].lastActive + defaultTTL >= now
                 => /\ Has(sessions', sessions[i].sessionId)
                    /\ Get(sessions', sessions[i].sessionId) = sessions[i]
     /\ reqs' # reqs =>
          \A i \in DOMAIN sessions :
            /\ Has(sessions', sessions[i].sessionId)
            /\ IsPrefix(sessions[i].messages,
                        Get(sessions', sessions[i].sessionId).messages)]_vars

\* a request in flight has just touched a session older than the time to live
\* while another session has expired: the sweep removes the other one only
C11_Witness ==
  /\ reqs[1].pc = "calling"
  /\ reqs[1].session_id = "s1"
  /\ Has(sessions, "s1") /\ Has(sessions, "s2")
  /\ Get(sessions, "s1").createdAt + defaultTTL < now
  /\ Get(sessions, "s1").lastActive = now
  /\ Get(sessions, "s2").lastActive + defaultTTL < now
  /\ cleanup(sessions, now) = <<Get(sessions, "s1")>>

\* a chunk that carries text and no finish_reason
IsContentChunk(c) ==
  c.kind = "chunk" /\ c.finish_reason = Null /\ ~Falsy(c.delta) /\ c.usage = None

\* C12: when the events of a streamed request end in complete, the output is
\* content chunks, then one chunk with empty delta and finish_reason stop, then
\* one end marker, and with it the output is closed; nothing more is written.
C12_CompleteOutput ==
  [][\A r \in DOMAIN reqs :
       LET o == reqs'[r].out
       IN /\ CompleteHandled(r)
               => /\ o = reqs[r].out \o <<FinalChunk("stop", reqs[r].totalUsage), DoneMarker>>
                  /\ ~reqs[r].closed /\ reqs'[r].closed
          /\ (\E i \in DOMAIN o : o[i].kind = "done")
               => /\ Len(o) >= 2
                  /\ o[Len(o)] = DoneMarker
                  /\ o[Len(o) - 1].kind = "chunk"
                  /\ o[Len(o) - 1].delta = Null
                  /\ o[Len(o) - 1].finish_reason = "stop"
                  /\ \A i \in 1..(Len(o) - 2) : IsContentChunk(o[i])
          /\ (reqs[r].closed /\ reqs'[r] # reqs[r]) => reqs'[r] = IdleReq]_vars

\* a streamed response of two content chunks, the final chunk with the usage
\* and the end marker has been closed
C12_Witness ==
  /\ reqs[1].pc = "done"
  /\ reqs[1].closed
  /\ reqs[1].out = <<ContentChunk("x"), ContentChunk("y"),
                     FinalChunk("stop", Some(totalUsageOf(3, 4))), DoneMarker>>

\* the texts of the content chunks of an output, in order
RECURSIVE ChunkTexts(_)
ChunkTexts(out) ==
  IF out = <<>> THEN <<>>
  ELSE (IF IsContentChunk(Head(out)) THEN <<Head(out).delta>> ELSE <<>>)
       \o ChunkTexts(Tail(out))

\* C13: when the events of a streamed request end in error, the chunks
\* written for the content events before it stay, one error signal follows
\* them as the last thing written, and the output holds no chunk with a
\* finish_reason and no end marker.
C13_ErrorOutput ==
  [][\A r \in DOMAIN reqs :
       LET o == reqs'[r].out
       IN /\ (/\ reqs[r].pc \in {"starting", "streaming"}
               /\ reqs'[r].pc = "done"
               /\ ~CompleteHandled(r))
               => /\ \E m \in {"error", "failed"} : o = reqs[r].out \o <<ErrorChunk(m)>>
                  /\ ChunkTexts(o) = reqs[r].received
                  /\ reqs'[r].closed
          /\ (\E i \in DOMAIN o : o[i].kind = "error")
               => /\ o[Len(o)].kind = "error"
                  /\ \A i \in 1..(Len(o) - 1) : IsContentChunk(o[i])
                  /\ reqs'[r].pc = "done"
          /\ (reqs[r].pc = "done" /\ reqs'[r] # reqs[r]) => reqs'[r] = IdleReq]_vars

\* a streamed response has ended in an error after two content chunks
C13_Witness ==
  /\ reqs[1].pc = "done"
  /\ reqs[1].closed
  /\ reqs[1].received = <<"x", "y">>
  /\ reqs[1].out = <<ContentChunk("x"), ContentChunk("y"), ErrorChunk("error")>>

\* C14: every content event handed to the handler's loop is written as one
\* chunk with that event's text and finish_reason null, after the chunks of
\* the events before it, and a step without a content event writes no chunk.
C14_ChunkPerContentEvent ==
  [][\A r \in DOMAIN reqs :
       (reqs[r].pc = "streaming" /\ reqs'[r].pc = "streaming")
         => /\ reqs'[r].received # reqs[r].received
                 => \E text \in Deltas :
                      /\ reqs'[r].received = Append(reqs[r].received, text)
                      /\ reqs'[r].out = Append(reqs[r].out, ContentChunk(text))
            /\ reqs'[r].received = reqs[r].received => reqs'[r].out = reqs[r].out
            /\ ChunkTexts(reqs'[r].out) = reqs'[r].received
            /\ Len(reqs'[r].out) = Len(reqs'[r].received)]_vars

\* the content events y and x have been received in this order
C14_Witness ==
  /\ reqs[1].pc = "streaming"
  /\ reqs[1].received = <<"y", "x">>
  /\ reqs[1].out = <<ContentChunk("y"), ContentChunk("x")>>

\* the terminal markers of an output: end markers and error signals
Terminals(out) == {i \in DOMAIN out : out[i].kind \in {"done", "error"}}

\* C15: when the events of a streamed request end, by complete, by an error
\* event or by an exception, one terminal marker is the last thing written,
\* the status stays 200, and the response is ended in that same step, once
\* and at the end.
C15_StreamTerminated ==
  [][LET req == reqs[1]
         after == reqs'[1]
     IN /\ (req.pc \in {"starting", "streaming"}
               /\ after.pc \notin {"starting", "streaming"})
             => /\ after.pc = "done"
                /\ after.status = 200
                /\ Cardinality(Terminals(after.out)) = 1
                /\ Len(after.out) \in Terminals(after.out)
                /\ after.closed
        /\ (~req.closed /\ after.closed)
             => /\ req.pc \in {"starting", "streaming"}
                /\ after.pc = "done"
                /\ Terminals(after.out) = {Len(after.out)}
        /\ (req.closed /\ after # req) => after = IdleReq]_vars

\* the iteration of the events has thrown after one content chunk: the error
\* signal is written and the response is ended
C15_Witness ==
  /\ reqs[1].pc = "done"
  /\ reqs[1].stream
  /\ reqs[1].status = 200
  /\ reqs[1].closed
  /\ reqs[1].out = <<ContentChunk("x"), ErrorChunk("failed")>>

\* the positions of the complete and error events among the yielded events
TerminalEvents(events) ==
  {i \in DOMAIN events : events[i].type \in {"complete", "error"}}

\* C16: among the events a run of runCompletionStreaming has yielded, a
\* complete or error event is the last one, and a run that has returned has
\* yielded exactly one of them.
C16_OneTerminalEvent ==
  /\ \A i \in TerminalEvents(gen.events) : i = Len(gen.events)
  /\ gen.pc = "returned" => Cardinality(TerminalEvents(gen.events)) = 1

\* C17: a usage event writes nothing; only the chunk with the finish_reason,
\* written on the complete event, carries a usage, and it is the usage of the
\* last usage event before it.
C17_UsageOnTerminalChunkOnly ==
  [][\A r \in DOMAIN reqs :
       LET o == reqs'[r].out
       IN /\ (/\ reqs[r].pc = "streaming" /\ reqs'[r].pc = "streaming"
               /\ reqs'[r].totalUsage # reqs[r].totalUsage)
               => /\ o = reqs[r].out
                  /\ \E usage \in Usages : reqs'[r].totalUsage = Some(usage)
          /\ \A i \in DOMAIN o :
               o[i].usage # None
                 => /\ o[i].kind = "chunk" /\ o[i].finish_reason = "stop"
                    /\ i = Len(o) - 1
                    /\ o[Len(o)] = DoneMarker
          /\ CompleteHandled(r)
               => o[Len(o) - 1].usage = reqs[r].totalUsage]_vars

\* a usage event came during the stream and its usage is on the final chunk
C17_Witness ==
  /\ reqs[1].pc = "done"
  /\ reqs[1].stream
  /\ reqs[1].out = <<ContentChunk("x"),
                     FinalChunk("stop", Some(totalUsageOf(0, 0))), DoneMarker>>

\* C18: a request answered 400 leaves the session registry as it was.
C18_RejectedLeavesRegistry ==
  [][\A r \in DOMAIN reqs :
       (reqs[r].pc = "idle" /\ reqs'[r].pc = "done" /\ reqs'[r].status = 400)
         => sessions' = sessions]_vars

\* the conditions under which the specification has validate reject a list
MustReject(messages) ==
  \/ Len(messages) = 0
  \/ \E i \in DOMAIN messages :
       \/ messages[i].role \in {Null, ""}
       \/ messages[i].role \notin {"system", "user", "assistant", "tool"}
       \/ (messages[i].role = "user" /\ messages[i].content \in {Null, Undefined, ""})

\* C19: a request is answered with an error of validateMessages exactly when
\* its list is empty, or an entry has no role or a role outside the four, or
\* a user entry has empty or no content; every other list passes validation.
C19_ValidateExact ==
  \A r \in DOMAIN reqs :
    LET req == reqs[r]
        refused == /\ req.pc = "done" /\ req.status = 400
                   /\ req.error # "No valid prompt in messages"
    IN /\ refused => (MustReject(req.messages) /\ req.error = validationError(req.messages))
       /\ (req.pc = "calling" \/ (req.pc = "done" /\ req.status = 400 /\ ~refused))
            => (~MustReject(req.messages) /\ validationError(req.messages) = Null)

\* a list whose second entry is a user message with empty content has been
\* rejected, the assistant message without content before it was let through
C19_Witness ==
  /\ reqs[1].pc = "done"
  /\ reqs[1].status = 400
  /\ reqs[1].messages = <<Msg("assistant", Null), Msg("user", "")>>
  /\ reqs[1].error = "User message at index 1 missing content"

\* the contents of the messages of role system, a null content as JavaScript
\* joins it
RECURSIVE SystemContents(_)
SystemContents(messages) ==
  IF messages = <<>> THEN <<>>
  ELSE (IF Head(messages).role = "system"
          THEN <<IF Head(messages).content \in {Null, Undefined}
                   THEN "" ELSE Head(messages).content>>
          ELSE <<>>)
       \o SystemContents(Tail(messages))

\* C20: the systemPrompt of a message list is the contents of its system
\* messages joined by two newlines, and absent exactly when it has none.
C20_SystemPromptJoined ==
  \A r \in DOMAIN reqs :
    (reqs[r].pc = "calling" /\ reqs[r].session_id = NoSid)
      => reqs[r].systemPrompt
           = IF SystemContents(reqs[r].messages) = <<>> THEN Null
             ELSE Join(SystemContents(reqs[r].messages), "\n\n")

\* the transcript lines the specification has toPrompt render: one for every
\* non-system message, the prefix of its role followed by its content, an
\* empty or absent content as empty text
RECURSIVE RenderedLines(_)
RenderedLines(messages) ==
  IF messages = <<>> THEN <<>>
  ELSE LET m == Head(messages)
           text == IF m.content \in {Null, Undefined} THEN "" ELSE m.content
           prefix == IF m.role = "user" THEN "User: "
                     ELSE IF m.role = "assistant" THEN "Assistant: "
                     ELSE "Tool result: "
       IN (IF m.role = "system" THEN <<>> ELSE <<prefix \o text>>)
          \o RenderedLines(Tail(messages))

\* C21: the prompt of a message list holds one line for every non-system
\* message, in the order of the list, with the prefix of its role, and a
\* message without content is rendered with empty text.
C21_TranscriptRendersAll ==
  \A r \in DOMAIN reqs :
    (reqs[r].pc = "calling" /\ reqs[r].session_id = NoSid)
      => /\ Len(conversationMessages(reqs[r].messages))
              = Len(NonSystem(reqs[r].messages))
         /\ reqs[r].prompt = Join(RenderedLines(reqs[r].messages), "\n\n")

\* a single-shot request has got its normal response
Completed(req) == req.pc = "done" /\ ~req.stream /\ req.status = 200

\* the response carries a non-empty list of tool calls
HasToolCalls(req) == req.tool_calls # None /\ Len(req.tool_calls[1]) > 0

\* C22: in a single-shot response the content is null exactly when it
\* carries tool calls, and then the finish_reason is tool_calls, else stop.
C22_ContentNullIffToolCalls ==
  \A r \in DOMAIN reqs :
    Completed(reqs[r])
      => /\ reqs[r].content = Null <=> HasToolCalls(reqs[r])
         /\ reqs[r].finish_reason = "tool_calls" <=> HasToolCalls(reqs[r])
         /\ reqs[r].finish_reason \in {"tool_calls", "stop"}
         /\ ~HasToolCalls(reqs[r]) => reqs[r].content = TextOf(reqs[r].text)
         /\ reqs[r].tool_calls # Some(<<>>)

\* a response with one tool call, recovered from a text of a valid and an
\* unregistered candidate
C22_Witness ==
  /\ Completed(reqs[1])
  /\ reqs[1].text = <<CallPart("foo", "{\"path\": \"a\"}"),
                      BlockPart("write_file", "{\"path\": \"a\"}")>>
  /\ reqs[1].content = Null
  /\ reqs[1].finish_reason = "tool_calls"
  /\ Len(reqs[1].tool_calls[1]) = 1

\* C23: a request with enable_tools not true and no tools and no functions
\* runs with tools off, and its response has no tool_calls, finish_reason
\* stop and the backend text as content, whatever candidates the text holds.
C23_ToolsOffByDefault ==
  [][\A r \in DOMAIN reqs :
       /\ (reqs[r].pc = "idle" /\ reqs'[r].pc = "calling")
            => (reqs'[r].toolsEnabled
                  <=> (\/ reqs'[r].enable_tools
                       \/ reqs'[r].tools # <<>>
                       \/ reqs'[r].functions # <<>>))
       /\ (/\ reqs[r].pc = "calling" /\ Completed(reqs'[r])
           /\ ~reqs[r].enable_tools /\ reqs[r].tools = <<>> /\ reqs[r].functions = <<>>)
            => /\ reqs'[r].tool_calls = None
               /\ reqs'[r].finish_reason = "stop"
               /\ reqs'[r].content = TextOf(reqs'[r].text)]_vars

\* a text with a registered name and arguments in JSON has been returned as
\* content, with no tool call
C23_Witness ==
  /\ Completed(reqs[1])
  /\ reqs[1].text = <<CallPart("read_file", "{\"path\": \"a\"}")>>
  /\ reqs[1].content = "read_file({\"path\": \"a\"})"
  /\ reqs[1].tool_calls = None
  /\ reqs[1].finish_reason = "stop"

\* the candidates of a text that have a registered name and arguments in
\* JSON, those of the first pattern before those of the second
Survivors(parts) ==
  SelectSeq(functionCallPattern(parts) \o codeBlockPattern(parts),
            LAMBDA c : c.name \in ToolNames /\ JSONParses(c.args))

\* C24: on every backend text, extractToolCalls returns one call for every
\* candidate with a registered name and arguments in JSON, with that name and
\* those arguments, none for the other candidates, and nothing, not an empty
\* list, when no candidate is left.
C24_ExtractRegisteredParsable ==
  \A r \in DOMAIN reqs :
    Completed(reqs[r]) =>
      \A ids \in [1..MaxParts -> CallIds] :
        LET result == extractToolCalls(reqs[r].text, ids)
            kept == Survivors(reqs[r].text)
        IN /\ result = None <=> kept = <<>>
           /\ result # Some(<<>>)
           /\ result # None
                => /\ Len(result[1]) = Len(kept)
                   /\ \A i \in DOMAIN kept :
                        /\ result[1][i].name = kept[i].name
                        /\ result[1][i].arguments = JSONNormal(kept[i].args)
                        /\ result[1][i].type = "function"
           /\ HasToolCalls(reqs[r])
                => \E js \in [1..MaxParts -> CallIds] :
                     reqs[r].tool_calls = extractToolCalls(reqs[r].text, js)

\* a candidate whose arguments do not parse stood before a valid one, which
\* alone was extracted
C24_Witness ==
  /\ Completed(reqs[1])
  /\ reqs[1].text = <<CallPart("read_file", "{oops}"),
                      CallPart("read_file", "{\"path\": \"a\"}")>>
  /\ HasToolCalls(reqs[1])
  /\ Len(reqs[1].tool_calls[1]) = 1
  /\ reqs[1].tool_calls[1][1].arguments = "{\"path\":\"a\"}"

\* C25: the ids of the tool calls of one response are pairwise distinct.
C25_CallIdsDistinct ==
  \A r \in DOMAIN reqs :
    (Completed(reqs[r]) /\ HasToolCalls(reqs[r])) =>
      \A i, j \in DOMAIN reqs[r].tool_calls[1] :
        i # j => reqs[r].tool_calls[1][i].id # reqs[r].tool_calls[1][j].id

\* C26: with an API key configured, a request enters the handler of its route
\* only when its Authorization header carries that key as Bearer token; any
\* other request starts no backend call and leaves the registry as it is;
\* without a key every request enters.  The steps are those of requests: the
\* key stays as it is.
C26_KeyProtectsEveryEndpoint ==
  [][(http' # http /\ http'.apiKey = http.apiKey) =>
       /\ Falsy(http.apiKey) => http'.admitted
       /\ ~Falsy(http.apiKey) =>
            /\ http'.admitted <=> bearerToken(http'.authorization) = http.apiKey
            /\ ~http'.admitted =>
                 /\ sessions' = sessions
                 /\ http'.status = 500
                 /\ \A r \in DOMAIN reqs :
                      reqs'[r] # reqs[r] => reqs'[r].pc = "done"]_vars

\* the thread id a session id is bound to in a registry: empty without
\* session id and without session
BoundThread(ss, sid) ==
  IF sid # NoSid /\ Has(ss, sid) THEN Get(ss, sid).threadId ELSE NoThread

\* C27: a request taken in on a session bound to a thread resumes exactly that
\* thread, and a request on an unbound session or without session id starts
\* a new thread; with one request at a time the thread a pending call runs on
\* is the thread its session is bound to.
C27_ResumesBoundThread ==
  /\ [][\A r \in DOMAIN reqs :
          reqs[r].pc = "idle" /\ reqs'[r].pc \in {"calling", "starting"} =>
            LET bound == BoundThread(sessions, reqs'[r].session_id)
            IN reqs'[r].opened = IF bound # NoThread
                                   THEN <<"resumeThread", bound>>
                                   ELSE <<"startThread">>]_vars
  /\ [](\A r \in DOMAIN reqs :
          /\ reqs[r].pc \in {"calling", "starting"}
          /\ Has(sessions, reqs[r].session_id)
          => reqs[r].opened
               = IF BoundThread(sessions, reqs[r].session_id) # NoThread
                   THEN <<"resumeThread", BoundThread(sessions, reqs[r].session_id)>>
                   ELSE <<"startThread">>)

\* a streamed request about to resume the thread an earlier request of its
\* session was answered on
C27_Witness ==
  /\ reqs[1].pc = "starting"
  /\ reqs[1].session_id = "s1"
  /\ reqs[1].opened = <<"resumeThread", "t1">>
  /\ BoundThread(sessions, "s1") = "t1"
  /\ \E i \in DOMAIN History(sessions, "s1") :
       History(sessions, "s1")[i].role = "assistant"

\* the backend call of the request in slot r completes in this step with a
\* thread handle: runCompletion resolves, or the streaming run yields its
\* complete event
CompletesOn(r, threadId) ==
  \/ /\ reqs[r].pc = "calling"
     /\ reqs'[r].pc = "done"
     /\ reqs'[r].status = 200
     /\ threadId \in ThreadIds
  \/ /\ CompleteHandled(r)
     /\ threadId = reqs[r].thread
     /\ threadId \in ThreadIds

\* C28: a session enters the registry with empty thread_id, and the thread_id
\* of a session that stays in the registry changes only in the step in which
\* the backend call of a request with that session_id completes, to the
\* handle that call returned; taking a request in, appending the answer,
\* deleting another session, the sweep and the clock leave it as it is.
C28_ThreadIdFromCompletedCall ==
  [][\A sid \in SessionIds :
       /\ ~Has(sessions, sid) /\ Has(sessions', sid)
            => Get(sessions', sid).threadId = NoThread
       /\ /\ Has(sessions, sid)
          /\ Has(sessions', sid)
          /\ Get(sessions', sid).threadId # Get(sessions, sid).threadId
          => \E r \in DOMAIN reqs :
               /\ reqs[r].session_id = sid
               /\ CompletesOn(r, Get(sessions', sid).threadId)]_vars

\* a streamed request on a session bound to one thread has completed on
\* another thread, and the session is bound to that one
C28_Witness ==
  /\ reqs[1].pc = "done"
  /\ reqs[1].stream
  /\ reqs[1].closed
  /\ Last(reqs[1].out) = DoneMarker
  /\ reqs[1].session_id = "s1"
  /\ BoundThread(sessions, "s1") = "t2"
  /\ \E i \in DOMAIN History(sessions, "s1") :
       History(sessions, "s1")[i].role = "assistant"

\* the backend call of the single-shot request in slot r raises in this step
Raises(r) ==
  /\ reqs[r].pc = "calling"
  /\ reqs'[r].pc = "done"
  /\ reqs'[r].status # 200

\* C29: when the backend call of a single-shot request raises, the request is
\* answered with status 500, the message of the error and no content, the
\* registry stays as it is (no assistant message, the same thread_id, the
\* request's messages still the end of the session's history), and the
\* answered request starts no other backend call.
C29_RaiseAnswers500Once ==
  [][\A r \in DOMAIN reqs :
       /\ Raises(r) =>
            /\ reqs'[r].status = 500
            /\ reqs'[r].error = "failed"
            /\ reqs'[r].content = Null
            /\ reqs'[r].opened = <<>>
            /\ sessions' = sessions
            /\ Has(sessions', reqs[r].session_id) =>
                 /\ IsSuffix(NonSystem(reqs[r].messages),
                             History(sessions', reqs[r].session_id))
                 /\ BoundThread(sessions', reqs[r].session_id)
                      = BoundThread(sessions, reqs[r].session_id)
       /\ reqs[r].pc = "done" => reqs'[r].pc \in {"done", "idle"}]_vars

\* a request on a bound session has been answered 500 and the session ends
\* with the request's user message
C29_Witness ==
  /\ reqs[1].pc = "done"
  /\ ~reqs[1].stream
  /\ reqs[1].status = 500
  /\ reqs[1].session_id = "s1"
  /\ BoundThread(sessions, "s1") = "t1"
  /\ Len(History(sessions, "s1")) = 3
  /\ Last(History(sessions, "s1")).role = "user"

\* C30: once the caller of a streamed response has disconnected, the handler
\* takes no further event of the backend and writes no further chunk for
\* that request.
C30_DisconnectStopsConsumption ==
  [][\A r \in DOMAIN reqs :
       reqs[r].pc = "streaming" /\ reqs[r].disconnected =>
         /\ reqs'[r].received = reqs[r].received
         /\ reqs'[r].out = reqs[r].out
         /\ ~CompleteHandled(r)]_vars

\* C31: no single-shot backend call is pending for longer than the configured
\* timeout ceiling: when the ceiling has passed the call has been ended and
\* the request answered.
C31_CallEndsAtCeiling ==
  \A r \in DOMAIN reqs :
    reqs[r].pc = "calling" => now <= reqs[r].calledAt + MAX_TIMEOUT

\* the time to live of session sid has elapsed at time t
Expired(ss, sid, t) == Has(ss, sid) /\ t > Get(ss, sid).lastActive + defaultTTL

\* C32: a request for the detail of a session, or to delete it, made after
\* the session's time to live has elapsed is answered not found, whether the
\* sweep has removed the session or not.
C32_ExpiredIsNotFound ==
  [][(/\ http' # http
      /\ http'.admitted
      /\ http'.endpoint \in {"session", "delete"}
      /\ Expired(sessions, http'.sessionId, now))
       => http'.status = 404]_vars

\* the sessions other than sid, in their order
Others(ss, sid) == SelectSeq(ss, LAMBDA s : s.sessionId # sid)

\* C33: a request to delete a session is answered 200 exactly when the session
\* existed and 404 otherwise; it removes that session and leaves the others
\* as they are; afterwards the session is absent for getSession and a second
\* deleteSession returns false; and a request that comes with the id of a
\* session that is not in the registry starts a session whose history is its
\* own messages and whose thread_id is empty.
C33_DeleteExact ==
  [][/\ (http' # http /\ http'.endpoint = "delete") =>
         LET sid == http'.sessionId
             again == deleteSession(sessions', sid)
         IN /\ http'.status = IF Has(sessions, sid) THEN 200 ELSE 404
            /\ deleteSession(sessions, sid).deleted <=> Has(sessions, sid)
            /\ sessions' = Others(sessions, sid)
            /\ \A other \in SessionIds \ {sid} :
                 getSession(sessions', other) = getSession(sessions, other)
            /\ getSession(sessions', sid) = <<>>
            /\ ~again.deleted
            /\ again.sessions = sessions'
     /\ \A r \in DOMAIN reqs :
          (Resolves(r) /\ ~Has(sessions, reqs'[r].session_id)) =>
            LET fresh == Get(sessions', reqs'[r].session_id)
            IN /\ fresh.messages = NonSystem(reqs'[r].messages)
               /\ fresh.threadId = NoThread
               /\ fresh.createdAt = now]_vars

\* the session s1 has been deleted on request, with answer 200, while the
\* session s2 stays in the registry with its history and its thread
C33_Witness ==
  /\ http.endpoint = "delete"
  /\ http.sessionId = "s1"
  /\ http.status = 200
  /\ ~Has(sessions, "s1")
  /\ Len(History(sessions, "s2")) = 2
  /\ BoundThread(sessions, "s2") = "t2"

\* C34: whenever a step of a chat-completion request changes the session of
\* the request (resolve, bindThread, appendAssistant), the session's
\* last_active is the time of that step afterwards; last_active of a session
\* never decreases and is never earlier than its created_at.
C34_LastActiveRefreshed ==
  [][/\ \A r \in DOMAIN reqs : \A sid \in SessionIds :
         (/\ reqs'[r] # reqs[r]
          /\ sid \in {reqs[r].session_id, reqs'[r].session_id}
          /\ Has(sessions', sid)
          /\ getSession(sessions', sid) # getSession(sessions, sid))
           => Get(sessions', sid).lastActive = now
     /\ \A sid \in SessionIds :
          /\ Has(sessions', sid)
               => Get(sessions', sid).createdAt <= Get(sessions', sid).lastActive
          /\ (Has(sessions, sid) /\ Has(sessions', sid))
               => Get(sessions, sid).lastActive <= Get(sessions', sid).lastActive]_vars

\* the sum of the history lengths of the sessions
RECURSIVE HistoryTotal(_)
HistoryTotal(ss) ==
  IF ss = <<>> THEN 0 ELSE Len(Head(ss).messages) + HistoryTotal(Tail(ss))

\* C35: the message_count of every session is the length of its history,
\* getStats reports as many active sessions as listSessions returns, and as
\* total the sum of the history lengths; listSessions reports every
\* session's message_count.
C35_CountsAgree ==
  /\ \A i \in DOMAIN sessions :
       /\ sessions[i].messageCount = Len(sessions[i].messages)
       /\ listSessions(sessions)[i].message_count = Len(sessions[i].messages)
       /\ listSessions(sessions)[i].session_id = sessions[i].sessionId
  /\ getStats(sessions).activeSessions = Len(listSessions(sessions))
  /\ getStats(sessions).totalMessages = HistoryTotal(sessions)

\* the statistics have been asked for while two sessions with histories of
\* different length are in the registry
C35_Witness ==
  /\ http.endpoint = "stats"
  /\ http.status = 200
  /\ Len(sessions) = 2
  /\ Len(sessions[1].messages) = 2
  /\ Len(sessions[2].messages) = 1
  /\ getStats(sessions).totalMessages = 3

\* the backend call of the single-shot request in slot r resolves in this step
Returns(r) ==
  /\ reqs[r].pc = "calling"
  /\ reqs'[r].pc = "done"
  /\ reqs'[r].status = 200

\* C36: when the backend call of a request resolves and the session in the
\* registry under the request's session_id is not the record the request
\* resolved (its history does not begin with the history the request was
\* handed, so that record was deleted and another one created since), the
\* completion changes neither the thread_id nor the history of that session.
C36_PersistsIntoResolvedRecordOnly ==
  [][\A r \in DOMAIN reqs :
       (/\ Returns(r)
        /\ Has(sessions, reqs[r].session_id)
        /\ ~IsPrefix(reqs[r].allMessages, History(sessions, reqs[r].session_id)))
         => /\ History(sessions', reqs[r].session_id)
                 = History(sessions, reqs[r].session_id)
            /\ BoundThread(sessions', reqs[r].session_id)
                 = BoundThread(sessions, reqs[r].session_id)]_vars

\* C37: when the answer of a request is appended to the history of its
\* session, the history up to the answer is the history the request was
\* handed, which ends with the request's own messages: no message of another
\* request lies between them and the answer.
C37_AnswerFollowsOwnMessages ==
  [][\A r \in DOMAIN reqs :
       (/\ Returns(r)
        /\ History(sessions', reqs[r].session_id)
             # History(sessions, reqs[r].session_id))
         => /\ History(sessions', reqs[r].session_id)
                 = Append(reqs[r].allMessages, Msg("assistant", reqs'[r].content))
            /\ IsSuffix(NonSystem(reqs[r].messages), reqs[r].allMessages)]_vars

\* C38: the text handed to the backend for a request is the prompt, with the
\* system prompt before it, of the request's messages with the tool context
\* injected: for a request with tools it holds the description of the tools,
\* for a request without tools it is derived from the messages alone.
C38_ToolContextSent ==
  \A r \in DOMAIN reqs :
    reqs[r].pc \in {"calling", "starting"} =>
      LET p == messagesToPrompt(injectToolContext(reqs[r].allMessages, reqs[r].tools))
      IN reqs[r].sent = finalPrompt(p.prompt, p.systemPrompt)

\* the finish_reason values of the chunks of an output that carry one
FinishReasons(out) ==
  {out[i].finish_reason :
     i \in {j \in DOMAIN out : out[j].kind = "chunk" /\ out[j].finish_reason # Null}}

\* C39: a streamed request whose backend produced one text and completed
\* ends with a chunk whose finish_reason is the finish_reason of the
\* single-shot response for the same text and the same tool setting:
\* tool_calls when a tool call is recovered from the text, stop otherwise.
C39_ModesAgree ==
  [][\A r \in DOMAIN reqs :
       (CompleteHandled(r) /\ Len(reqs[r].received) = 1) =>
         \A parts \in ToolTexts :
           TextOf(parts) = reqs[r].received[1] =>
             FinishReasons(reqs'[r].out)
               = {buildResponse(reqs[r].toolsEnabled, parts, "stop",
                                [i \in 1..MaxParts |-> "call_a"]).finish_reason}]_vars

====
